---- MODULE Spec2Model ----
(***************************************************************************)
(* Model of notifier.py: the Mindustry boss-wave notifier.                 *)
(*                                                                         *)
(* Times are integers counted in tenths of a second, the largest unit in   *)
(* which CHECK_MESSAGE_INTERVAL (0.1 s), CHECK_STATE_INTERVAL (0.5 s) and  *)
(* MIN_BOSS_INTERVAL (120 s) are all whole numbers.  Every value the float *)
(* counter active_time_without_boss takes is a multiple of 0.5, which a    *)
(* double represents exactly, so the integer arithmetic is the code's.     *)
(***************************************************************************)
EXTENDS Integers, Sequences, FiniteSets

VARIABLES
    alive,                      \* WindowsNotifier.alive
    prev_state,                 \* Notifier.prev_state
    active_time_without_boss,   \* Notifier.active_time_without_boss (tenths of a second)
    pc,                         \* position of the monitor coroutine: "loop", "sleep", "done"
    sleep_i,                    \* iterations of message_aware_sleep's for loop already run
    notifications,              \* the notify() calls of the last tick, in order (titles' states)
    tray_state,                 \* WindowsNotifier.game_state
    after_exit,                 \* history: iterations of message_aware_sleep run after the one that processed Exit
    notify_raised,              \* show_notification raised in the last tick
    cur_state,                  \* the local `state` of monitor, None before the first sample
    done_steps,                 \* history: the statements of the last tick sampled that have run
    verbose,                    \* Notifier.verbose
    interval,                   \* Notifier.interval (tenths of a second)
    status_age,                 \* time.time() - Notifier.status_time, counted up to MaxAge
    printed,                    \* the line the last tick printed: "change", "status" or "none"
    since_line,                 \* history: time since the last printed line, counted up to MaxAge
    since_notified,             \* history: ticks from the boss notification before the last tick to the last tick, -1 if none
    boss_seen,                  \* history: some tick was classified BOSS_WAVE
    others_run,                 \* history: OTHER ticks from the last BOSS_WAVE tick before the last tick (or the start) to the last tick
    frame,                      \* what the window system answers to one call of game_state
    sample                      \* the value that call of game_state returned, None before it

vars == <<alive, prev_state, active_time_without_boss, pc, sleep_i, notifications,
          tray_state, after_exit, notify_raised, cur_state, done_steps,
          verbose, interval, status_age, printed, since_line, since_notified, boss_seen, others_run, frame, sample>>

histVars == <<since_notified, boss_seen, others_run>>
frameVars == <<frame, sample>>
logVars == <<verbose, interval, status_age, printed, since_line>>
stepVars == <<notify_raised, cur_state, done_steps>>

----------------------------------------------------------------------------
(* GameState enum and the class constants of Notifier *)

NOT_FOUND       == "NOT_FOUND"
SCREENSHOT_FAIL == "SCREENSHOT_FAIL"
MINIMIZED       == "MINIMIZED"
BOSS_WAVE       == "BOSS_WAVE"
Other           == "OTHER"      \* GameState.OTHER (OTHER is a reserved word of TLA+)
None            == "None"

GameState == {NOT_FOUND, SCREENSHOT_FAIL, MINIMIZED, BOSS_WAVE, Other}

CHECK_STATE_INTERVAL   == 5      \* 0.5 s
CHECK_MESSAGE_INTERVAL == 1      \* 0.1 s
MIN_BOSS_INTERVAL      == 1200   \* 120 s

SCREENSHOT_X1 == 20
SCREENSHOT_X2 == 25
SCREENSHOT_Y1 == 145
SCREENSHOT_Y2 == 175

\* Bounds of the model
MaxActive  == 1300   \* cap of active_time_without_boss (the code's counter is unbounded)
MaxElapsed == 261    \* since_notified stops counting here
MaxOffPixels == 1    \* pixels of a sampled image that differ from its background
MaxAge == 60         \* status_age and since_line stop counting here

----------------------------------------------------------------------------
(* Notifier.is_boss_pixel and Notifier.game_state *)

Abs(x) == IF x < 0 THEN -x ELSE x

\* lines 77-80.  A pixel is <<R, G, B>>; luminances are scaled by 10000, so
\* that 0.2126, 0.7152, 0.0722, 93.425 and 1.0 are whole numbers.  (The
\* double arithmetic of the code differs from the exact one only for pixels
\* whose luminance is exactly 92.425 or 94.425; no pixel of Palette is one.)
lum_boss == 934250
err == 10000
is_boss_pixel(pixel) ==
    LET lum_pixel == 2126 * pixel[1] + 7152 * pixel[2] + 722 * pixel[3]
    IN  Abs(lum_pixel - lum_boss) < err

\* lines 115-116
width  == SCREENSHOT_X2 - SCREENSHOT_X1
height == SCREENSHOT_Y2 - SCREENSHOT_Y1

\* the positions of img_cropped (lines 110-111)
Region == (0 .. width - 1) \X (0 .. height - 1)

\* lines 117-118: the positions the two loops visit, range(1, width) and range(1, height)
Scanned == (1 .. width - 1) \X (1 .. height - 1)

\* lines 114-125: BOSS_WAVE unless a visited pixel is not a boss pixel
PixelState(img) ==
    IF \A p \in Scanned : is_boss_pixel(img[p]) THEN BOSS_WAVE ELSE Other

\* game_state without the test of line 135
game_state_unchecked(f) ==
    IF ~f.window THEN NOT_FOUND
    ELSE IF f.iconic THEN MINIMIZED
    ELSE PixelState(f.img)

\* lines 86-138.  f.window: FindWindow returned a handle; f.iconic: IsIconic;
\* f.result: what PrintWindow returned; f.img: the cropped image
game_state(f) ==
    IF ~f.window THEN NOT_FOUND
    ELSE IF f.iconic THEN MINIMIZED
    ELSE IF f.result # 1 THEN SCREENSHOT_FAIL
    ELSE PixelState(f.img)

\* Inputs: the boss bar's red (luminance 93.425), a grey of luminance 100.0, black
BossRed == <<255, 52, 28>>
Grey100 == <<100, 100, 100>>
Black   == <<0, 0, 0>>
Palette == {BossRed, Grey100, Black}

RECURSIVE SubsetsUpTo(_, _)
SubsetsUpTo(S, n) ==
    IF n = 0 THEN {{}}
    ELSE LET smaller == SubsetsUpTo(S, n - 1)
         IN  smaller \cup {T \cup {x} : T \in smaller, x \in S}

\* an image: a background pixel, and at most MaxOffPixels positions of another pixel
Images ==
    {[p \in Region |-> IF p \in off THEN q ELSE bg] :
        bg \in {BossRed}, q \in Palette \ {BossRed}, off \in SubsetsUpTo(Region, MaxOffPixels)}

PrintResults == {0, 1}

Frames == [window : BOOLEAN, iconic : BOOLEAN, result : PrintResults, img : Images]

----------------------------------------------------------------------------
(* Notifier.monitor, one tick: lines 145-166 *)

\* a boss-wave alert without the cooldown
BossAlertAlways(state, active) ==
    state = BOSS_WAVE

\* line 148: the boss-wave alert condition
BossAlertDue(state, active) ==
    state = BOSS_WAVE /\ active >= MIN_BOSS_INTERVAL

\* every state but BOSS_WAVE alerted on a change into it
AlertOnEveryChange == {NOT_FOUND, SCREENSHOT_FAIL, MINIMIZED, Other}

\* line 151: states alerted on every change into them
AlertOnChange == {SCREENSHOT_FAIL, MINIMIZED}

\* the alerts without the test of line 146 (level-triggered)
TickNotificationsEveryTick(state, prev, active) ==
    IF BossAlertDue(state, active) THEN <<state>>
    ELSE IF state \in AlertOnChange THEN <<state>>
    ELSE <<>>

\* lines 146-159: the notify() calls of a tick
TickNotifications(state, prev, active) ==
    IF state # prev
    THEN IF BossAlertDue(state, active) THEN <<state>>
         ELSE IF state \in AlertOnChange THEN <<state>>
         ELSE <<>>
    ELSE <<>>

\* the counter without the reset of line 162
NextActiveTimeNoReset(state, active) ==
    IF state = Other THEN active + CHECK_STATE_INTERVAL ELSE active

\* lines 161-164: the cooldown counter after a tick
NextActiveTime(state, active) ==
    IF state = BOSS_WAVE THEN 0
    ELSE IF state = Other THEN active + CHECK_STATE_INTERVAL
    ELSE active

\* a cooldown that starts one tick short
InitialActiveTimeShort == MIN_BOSS_INTERVAL - CHECK_STATE_INTERVAL

\* line 64
InitialActiveTime == MIN_BOSS_INTERVAL

\* a loop that never tests alive
LoopConditionAlways == TRUE

\* a loop that also stops after a fatal sample
LoopConditionFatal == alive /\ prev_state \notin {NOT_FOUND, SCREENSHOT_FAIL}

\* line 144: the loop condition of monitor
LoopCondition == alive

\* the tray's state written only inside the alerting branches
TrayStateOnAlert(state, prev, tray) ==
    IF state # prev /\ state \in {BOSS_WAVE, SCREENSHOT_FAIL, MINIMIZED} THEN state ELSE tray

\* lines 146 and 156-157: WindowsNotifier.game_state after a tick
TrayState(state, prev, tray) ==
    IF state # prev THEN state ELSE tray

\* the statements of a tick after its sample: the alert and the tray's icon
\* (lines 146-159), the counter (lines 161-164), prev_state (line 166)
TickSteps == {"dispatch", "cooldown", "prev"}

\* line 308: the default of --interval, 5 s
DefaultInterval == 50

\* the frames the ticks of monitor sample: one of each kind
AllBoss  == [p \in Region |-> BossRed]
AllBlack == [p \in Region |-> Black]
NoWindow == [window |-> FALSE, iconic |-> FALSE, result |-> 0, img |-> AllBlack]
TickFrames ==
    {NoWindow,
     [window |-> TRUE, iconic |-> TRUE, result |-> 0, img |-> AllBlack],
     [window |-> TRUE, iconic |-> FALSE, result |-> 0, img |-> AllBoss],
     [window |-> TRUE, iconic |-> FALSE, result |-> 1, img |-> AllBoss],
     [window |-> TRUE, iconic |-> FALSE, result |-> 1, img |-> AllBlack]}

\* line 145, for the frames of TickFrames
TickSamples == {game_state(f) : f \in TickFrames}

\* lines 144-166 on the program's variables, for the sample `state`
TickBody(state) ==
    /\ pc = "loop"
    /\ LoopCondition
    /\ NextActiveTime(state, active_time_without_boss) <= MaxActive
    /\ notifications' = TickNotifications(state, prev_state, active_time_without_boss)
    /\ active_time_without_boss' = NextActiveTime(state, active_time_without_boss)
    /\ prev_state' = state
    /\ tray_state' = TrayState(state, prev_state, tray_state)
    /\ pc' = "sleep"
    /\ sleep_i' = 0
    /\ UNCHANGED <<alive, after_exit>>
    /\ UNCHANGED frameVars

\* the history of a tick
TickHistory(state) ==
    /\ since_notified' =
          IF notifications = <<BOSS_WAVE>> THEN 1
          ELSE IF since_notified = -1 THEN -1
          ELSE IF since_notified < MaxElapsed THEN since_notified + 1
          ELSE since_notified
    /\ boss_seen' = (boss_seen \/ state = BOSS_WAVE)
    /\ others_run' =
          (IF prev_state = BOSS_WAVE THEN 0 ELSE others_run)
          + (IF state = Other THEN 1 ELSE 0)

\* one tick of monitor
Tick ==
    \E state \in TickSamples :
        TickBody(state) /\ UNCHANGED histVars /\ UNCHANGED logVars /\ UNCHANGED stepVars

\* one tick of monitor, with its history recorded
TimedTick ==
    \E state \in TickSamples :
        TickBody(state) /\ TickHistory(state) /\ UNCHANGED logVars /\ UNCHANGED stepVars

\* a tick whose notify() raises: Shell_NotifyIcon fails in show_notification
\* (line 250), which has no handler, nor have notify (line 141), monitor or
\* main; the exception leaves monitor at line 149 or 152, before the
\* statements of lines 150-166, and the task ends with it
TickRaises ==
    \E state \in TickSamples :
        /\ pc = "loop"
        /\ LoopCondition
        /\ TickNotifications(state, prev_state, active_time_without_boss) # <<>>
        /\ notifications' = TickNotifications(state, prev_state, active_time_without_boss)
        /\ notify_raised' = TRUE
        /\ cur_state' = state
        /\ pc' = "raised"
        /\ UNCHANGED <<alive, prev_state, active_time_without_boss, sleep_i, tray_state,
                       after_exit, done_steps>>
        /\ UNCHANGED histVars
        /\ UNCHANGED frameVars
        /\ UNCHANGED logVars

\* lines 69-72: log prints a line on a state change, and otherwise in verbose
\* mode when more than interval has passed since status_time; age is
\* time.time() - status_time
LogPrintsUnthrottled(state_change, age) == state_change \/ verbose

LogPrints(state_change, age) == state_change \/ (verbose /\ age > interval)

\* lines 146-159 and 71-72: the one call of log in a tick, with state_change
\* True on every branch of a changed state (lines 150, 153, 155) and the
\* default False at line 159; a printed line sets status_time to the clock
LogEffects(state) ==
    /\ printed' = IF ~LogPrints(state # prev_state, status_age) THEN "none"
                  ELSE IF state # prev_state THEN "change"
                  ELSE "status"
    /\ status_age' = IF LogPrints(state # prev_state, status_age) THEN 0 ELSE status_age
    /\ since_line' = IF LogPrints(state # prev_state, status_age) THEN 0 ELSE since_line
    /\ UNCHANGED <<verbose, interval>>

\* lines 144-166 with the tick's log line
LoggedTick ==
    \E state \in TickSamples :
        TickBody(state) /\ LogEffects(state) /\ UNCHANGED histVars /\ UNCHANGED stepVars

\* the order of the statements of one tick, lines 145-167: monitor has no
\* await between line 145 and line 166, so the tick runs from the sample to
\* prev_state = state in this order, and only then enters message_aware_sleep
StepAfterSkipsBookkeeping(p) ==
    CASE p = "loop" -> "sampled"
      [] p = "sampled" -> "dispatched"
      [] p = "dispatched" -> "sleep"
      [] OTHER -> "sleep"

StepAfter(p) ==
    CASE p = "loop" -> "sampled"
      [] p = "sampled" -> "dispatched"
      [] p = "dispatched" -> "counted"
      [] OTHER -> "sleep"

\* lines 144-145: the loop condition holds and game_state is called
StepSample ==
    \E state \in TickSamples :
        /\ pc = "loop"
        /\ LoopCondition
        /\ NextActiveTime(state, active_time_without_boss) <= MaxActive
        /\ cur_state' = state
        /\ done_steps' = {}
        /\ notify_raised' = FALSE
        /\ pc' = StepAfter(pc)
        /\ UNCHANGED <<alive, prev_state, active_time_without_boss, sleep_i, notifications,
                       tray_state, after_exit>>
        /\ UNCHANGED histVars
        /\ UNCHANGED frameVars
        /\ UNCHANGED logVars

\* lines 146-159: the notification and the tray icon of the tick
StepDispatch ==
    /\ pc = "sampled"
    /\ notifications' = TickNotifications(cur_state, prev_state, active_time_without_boss)
    /\ tray_state' = TrayState(cur_state, prev_state, tray_state)
    /\ done_steps' = done_steps \cup {"dispatch"}
    /\ pc' = StepAfter(pc)
    /\ UNCHANGED <<alive, prev_state, active_time_without_boss, sleep_i, after_exit,
                   notify_raised, cur_state>>
    /\ UNCHANGED histVars
    /\ UNCHANGED frameVars
    /\ UNCHANGED logVars

\* lines 161-164: the cooldown counter of the tick
StepCooldown ==
    /\ pc = "dispatched"
    /\ active_time_without_boss' = NextActiveTime(cur_state, active_time_without_boss)
    /\ done_steps' = done_steps \cup {"cooldown"}
    /\ pc' = StepAfter(pc)
    /\ UNCHANGED <<alive, prev_state, sleep_i, notifications, tray_state, after_exit,
                   notify_raised, cur_state>>
    /\ UNCHANGED histVars
    /\ UNCHANGED frameVars
    /\ UNCHANGED logVars

\* lines 166-167: prev_state is set and message_aware_sleep is entered
StepPrev ==
    /\ pc = "counted"
    /\ prev_state' = cur_state
    /\ done_steps' = done_steps \cup {"prev"}
    /\ pc' = StepAfter(pc)
    /\ sleep_i' = 0
    /\ UNCHANGED <<alive, active_time_without_boss, notifications, tray_state, after_exit,
                   notify_raised, cur_state>>
    /\ UNCHANGED histVars
    /\ UNCHANGED frameVars
    /\ UNCHANGED logVars

----------------------------------------------------------------------------
(* message_aware_sleep and the tray's commands *)

\* twice the iterations
SleepIterationsTwice == 2 * (CHECK_STATE_INTERVAL \div CHECK_MESSAGE_INTERVAL)

\* line 172: int(total_time / msg_time)
SleepIterations == CHECK_STATE_INTERVAL \div CHECK_MESSAGE_INTERVAL

\* lines 269-270: the ids of the tray menu's items
ShowGameId == 1024
ExitId     == 1025
CommandIds == {ShowGameId, ExitId, ExitId + 1}

\* lines 277-286: WindowsNotifier.alive after on_command(wid)
on_command(wid, a) ==
    IF wid = ShowGameId THEN a
    ELSE IF wid = ExitId THEN FALSE
    ELSE a

\* line 173: PumpWaitingMessages dispatches the waiting messages; the tray
\* window gets commands only while it exists
Pumped(a) == {a} \cup (IF a THEN {on_command(wid, a) : wid \in CommandIds} ELSE {})

\* lines 172-174: one iteration of the for loop; after the last one
\* message_aware_sleep returns to the loop condition of monitor
PumpAndSleep ==
    /\ pc = "sleep"
    /\ sleep_i < SleepIterations
    /\ alive' \in Pumped(alive)
    /\ IF sleep_i + 1 = SleepIterations
       THEN pc' = "loop" /\ sleep_i' = 0
       ELSE pc' = "sleep" /\ sleep_i' = sleep_i + 1
    /\ after_exit' = IF alive THEN after_exit ELSE after_exit + 1
    /\ UNCHANGED <<prev_state, active_time_without_boss, notifications, tray_state>>
    /\ UNCHANGED histVars
    /\ UNCHANGED frameVars
    /\ UNCHANGED logVars
    /\ UNCHANGED stepVars

\* lines 169-174 as a whole: every iteration pumps the messages
SleepBody ==
    /\ pc = "sleep"
    /\ sleep_i = 0
    /\ alive' \in Pumped(alive)
    /\ pc' = "loop"
    /\ UNCHANGED <<prev_state, active_time_without_boss, sleep_i, notifications,
                   tray_state, after_exit>>
    /\ UNCHANGED histVars
    /\ UNCHANGED frameVars
    /\ UNCHANGED stepVars

MessageAwareSleep == SleepBody /\ UNCHANGED logVars

Min(a, b) == IF a < b THEN a ELSE b

\* lines 169-174 with the clock: the sleep takes total_time, and time.time()
\* is that much further from status_time and from the last printed line
ClockedSleep ==
    /\ SleepBody
    /\ status_age' = Min(status_age + CHECK_STATE_INTERVAL, MaxAge)
    /\ since_line' = Min(since_line + CHECK_STATE_INTERVAL, MaxAge)
    /\ UNCHANGED <<verbose, interval, printed>>

\* line 144: the loop condition fails and monitor returns
Return ==
    /\ pc = "loop"
    /\ ~LoopCondition
    /\ pc' = "done"
    /\ UNCHANGED <<alive, prev_state, active_time_without_boss, sleep_i, notifications,
                   tray_state, after_exit>>
    /\ UNCHANGED histVars
    /\ UNCHANGED frameVars
    /\ UNCHANGED logVars
    /\ UNCHANGED stepVars

----------------------------------------------------------------------------
(* The specifications *)

\* lines 59-67, 179 and 195: the state after Notifier() is constructed
Init ==
    /\ alive = TRUE
    /\ prev_state = None
    /\ active_time_without_boss = InitialActiveTime
    /\ pc = "loop"
    /\ sleep_i = 0
    /\ notifications = <<>>
    /\ tray_state = Other
    /\ after_exit = 0
    /\ notify_raised = FALSE
    /\ cur_state = None
    /\ done_steps = TickSteps
    /\ verbose = FALSE
    /\ interval = DefaultInterval
    /\ status_age = 0
    /\ printed = "none"
    /\ since_line = 0
    /\ since_notified = -1
    /\ boss_seen = FALSE
    /\ others_run = 0
    /\ frame = None
    /\ sample = None

\* monitor, step by step
Next == Tick \/ PumpAndSleep \/ Return

Spec == Init /\ [][Next]_vars

\* monitor under the event loop's scheduling: run_until_complete (line 301)
\* resumes the task after every sleep and runs it until it suspends or returns
SpecFair ==
    Init /\ [][Next]_vars /\ WF_vars(Tick) /\ WF_vars(PumpAndSleep) /\ WF_vars(Return)

\* monitor with a notification area that may refuse a notification
NextRaise == Tick \/ TickRaises \/ PumpAndSleep \/ Return

SpecRaise == Init /\ [][NextRaise]_vars

\* lines 304-310: --verbose and --interval, an int of seconds, here in tenths
Intervals == {0, 10, DefaultInterval}

\* lines 59-67 under the options of the command line; line 67 prints
\* "Notifier started." and sets status_time
InitLog ==
    /\ alive = TRUE
    /\ prev_state = None
    /\ active_time_without_boss = InitialActiveTime
    /\ pc = "loop"
    /\ sleep_i = 0
    /\ notifications = <<>>
    /\ tray_state = Other
    /\ after_exit = 0
    /\ notify_raised = FALSE
    /\ cur_state = None
    /\ done_steps = TickSteps
    /\ verbose \in BOOLEAN
    /\ interval \in Intervals
    /\ status_age = 0
    /\ printed = "started"
    /\ since_line = 0
    /\ since_notified = -1
    /\ boss_seen = FALSE
    /\ others_run = 0
    /\ frame = None
    /\ sample = None

\* monitor tick by tick, with its log lines and the clock
NextLog == LoggedTick \/ ClockedSleep \/ Return

SpecLog == InitLog /\ [][NextLog]_vars

\* monitor statement by statement
NextSteps == StepSample \/ StepDispatch \/ StepCooldown \/ StepPrev \/ PumpAndSleep \/ Return

SpecSteps == Init /\ [][NextSteps]_vars

\* monitor tick by tick, with the history of its notifications
NextCooldown == TimedTick \/ MessageAwareSleep \/ Return

SpecCooldown == Init /\ [][NextCooldown]_vars

\* game_state alone, on every frame of Frames
InitSample ==
    /\ frame \in Frames
    /\ sample = None
    /\ alive = TRUE
    /\ prev_state = None
    /\ active_time_without_boss = InitialActiveTime
    /\ pc = "loop"
    /\ sleep_i = 0
    /\ notifications = <<>>
    /\ tray_state = Other
    /\ after_exit = 0
    /\ notify_raised = FALSE
    /\ cur_state = None
    /\ done_steps = TickSteps
    /\ verbose = FALSE
    /\ interval = DefaultInterval
    /\ status_age = 0
    /\ printed = "none"
    /\ since_line = 0
    /\ since_notified = -1
    /\ boss_seen = FALSE
    /\ others_run = 0

Sample ==
    /\ sample = None
    /\ sample' = game_state(frame)
    /\ UNCHANGED <<frame, alive, prev_state, active_time_without_boss, pc, sleep_i,
                   notifications, tray_state, after_exit>>
    /\ UNCHANGED histVars
    /\ UNCHANGED logVars
    /\ UNCHANGED stepVars

NextSample == Sample

SpecSample == InitSample /\ [][NextSample]_vars

----------------------------------------------------------------------------
(* Properties *)

\* a step that is a tick of monitor: prev_state is the previous tick's state,
\* prev_state' the state sampled by this tick
IsTick == pc = "loop" /\ pc' = "sleep"

Fatal == {NOT_FOUND, SCREENSHOT_FAIL}

\* the time `ticks` ticks take, in tenths of a second
Seconds10(ticks) == ticks * CHECK_STATE_INTERVAL

\* C1: a tick sends a boss-wave notification only if it sampled BOSS_WAVE, the
\* previous tick's state was not BOSS_WAVE, and the previous boss-wave
\* notification, if any, was sent at least MIN_BOSS_INTERVAL (240 ticks) before
C1_BossNotificationsApart ==
    [][(IsTick /\ \E k \in DOMAIN notifications' : notifications'[k] = BOSS_WAVE)
         => /\ prev_state' = BOSS_WAVE
            /\ prev_state # BOSS_WAVE
            /\ \/ since_notified' = -1
               \/ Seconds10(since_notified') >= MIN_BOSS_INTERVAL]_vars

\* a second boss-wave notification, sent as early as the code allows: 241
\* ticks after the one before
C1_Witness ==
    /\ notifications = <<BOSS_WAVE>>
    /\ Seconds10(since_notified) = MIN_BOSS_INTERVAL + CHECK_STATE_INTERVAL

\* C2 as claimed: every tick that enters BOSS_WAVE from another state at least
\* MIN_BOSS_INTERVAL after the last boss-wave notification sends a notification
C2_CooldownFromLastNotified ==
    [][(/\ IsTick
        /\ prev_state # BOSS_WAVE
        /\ prev_state' = BOSS_WAVE
        /\ since_notified' # -1
        /\ Seconds10(since_notified') >= MIN_BOSS_INTERVAL)
         => notifications' = <<BOSS_WAVE>>]_vars

\* C2 as amended: the cooldown runs from the last BOSS_WAVE tick, notified or
\* not, and only OTHER ticks advance it: a tick that enters BOSS_WAVE from
\* another state sends a notification exactly when no tick was BOSS_WAVE before
\* or at least 240 ticks since the last BOSS_WAVE tick were OTHER
C2_CooldownFromLastDetected ==
    [][(IsTick /\ prev_state # BOSS_WAVE /\ prev_state' = BOSS_WAVE)
         => (notifications' = <<BOSS_WAVE>>
               <=> (~boss_seen \/ Seconds10(others_run') >= MIN_BOSS_INTERVAL))]_vars

\* a notified boss wave after exactly 240 OTHER ticks and some ticks of another kind
C2_Witness ==
    /\ prev_state = BOSS_WAVE
    /\ notifications = <<BOSS_WAVE>>
    /\ Seconds10(others_run) = MIN_BOSS_INTERVAL
    /\ since_notified > others_run + 1

\* C3 as claimed: every tick classified NOT_FOUND or SCREENSHOT_FAIL sends a
\* notification
C3_FatalAlwaysNotified ==
    prev_state \in Fatal => notifications # <<>>

\* C3 as amended: a SCREENSHOT_FAIL tick sends one notification exactly when
\* the previous tick's state was not SCREENSHOT_FAIL, and a NOT_FOUND tick
\* sends none
C3_FatalNotifications ==
    [][IsTick
         => /\ prev_state' = SCREENSHOT_FAIL
                => notifications' = (IF prev_state # SCREENSHOT_FAIL
                                     THEN <<SCREENSHOT_FAIL>> ELSE <<>>)
            /\ prev_state' = NOT_FOUND => notifications' = <<>>]_vars

\* a SCREENSHOT_FAIL tick that sent its notification
C3_Witness ==
    prev_state = SCREENSHOT_FAIL /\ notifications = <<SCREENSHOT_FAIL>>

\* C4 as claimed: after a tick classified NOT_FOUND or SCREENSHOT_FAIL no
\* further sample is requested
C4_FatalTerminates ==
    [][(prev_state \in Fatal) => ~IsTick]_vars

\* C4 as amended: a NOT_FOUND or SCREENSHOT_FAIL tick does not end the loop:
\* after its sleep the next sample is due while alive holds, and monitor
\* returns only once alive is cleared
C4_FatalContinues ==
    /\ (prev_state \in Fatal /\ pc = "loop" /\ alive) => ENABLED Tick
    /\ pc = "done" => ~alive

\* back at the loop condition after a fatal tick and its sleep, still alive
C4_Witness ==
    prev_state \in Fatal /\ pc = "loop" /\ alive

\* C5: the first tick classified BOSS_WAVE sends a notification, whatever
\* ticks came before it
C5_FirstBossNotified ==
    [][(IsTick /\ ~boss_seen /\ prev_state' = BOSS_WAVE)
         => notifications' = <<BOSS_WAVE>>]_vars

\* the first boss-wave notification, after some OTHER ticks
C5_Witness ==
    /\ prev_state = BOSS_WAVE
    /\ notifications = <<BOSS_WAVE>>
    /\ since_notified = -1
    /\ others_run > 0

\* the last tick sampled BOSS_WAVE, the boss-wave notification before it was
\* sent since_notified ticks earlier, and every tick between the two was OTHER
ReentryAfterOthers ==
    /\ prev_state = BOSS_WAVE
    /\ since_notified >= 2
    /\ since_notified < MaxElapsed
    /\ others_run = since_notified - 1

\* C6: after a notified boss wave and only OTHER ticks, a re-entry 10 s (20
\* ticks) after it sends no notification, one 130 s (260 ticks) after it does
C6_ReentryAt10And130 ==
    /\ (ReentryAfterOthers /\ Seconds10(since_notified) = 100)
          => notifications = <<>>
    /\ (ReentryAfterOthers /\ Seconds10(since_notified) = 1300)
          => notifications = <<BOSS_WAVE>>

\* the notified re-entry 130 s after
C6_Witness ==
    /\ ReentryAfterOthers
    /\ Seconds10(since_notified) = 1300
    /\ notifications = <<BOSS_WAVE>>

\* C7: a tick that enters MINIMIZED from another state sends exactly one
\* notification, a tick that stays MINIMIZED none
C7_MinimizedEdge ==
    [][(IsTick /\ prev_state' = MINIMIZED)
         => notifications' = (IF prev_state # MINIMIZED THEN <<MINIMIZED>> ELSE <<>>)]_vars

\* a repeated MINIMIZED tick: the second of a run at the earliest
C7_Witness ==
    prev_state = MINIMIZED /\ notifications = <<>>

\* C8: a tick classified OTHER sends no notification
C8_OtherSilent ==
    prev_state = Other => notifications = <<>>

\* an OTHER tick with the cooldown satisfied
C8_Witness ==
    /\ prev_state = Other
    /\ active_time_without_boss >= MIN_BOSS_INTERVAL
    /\ notifications = <<>>

\* C9 as claimed: for a captured window, BOSS_WAVE is returned exactly when
\* every pixel of the region is a boss pixel, Other otherwise
C9_AllPixelsDecide ==
    (sample # None /\ frame.window /\ ~frame.iconic /\ frame.result = 1)
       => sample = (IF \A p \in Region : is_boss_pixel(frame.img[p])
                    THEN BOSS_WAVE ELSE Other)

\* C10: NOT_FOUND without a window, else MINIMIZED when iconic, else
\* SCREENSHOT_FAIL when PrintWindow did not return 1, whatever the pixels, and
\* only else the pixels' classification
C10_PriorityChain ==
    sample # None
       => /\ ~frame.window => sample = NOT_FOUND
          /\ (frame.window /\ frame.iconic) => sample = MINIMIZED
          /\ (frame.window /\ ~frame.iconic /\ frame.result # 1)
                => sample = SCREENSHOT_FAIL
          /\ (frame.window /\ ~frame.iconic /\ frame.result = 1)
                => sample \in {BOSS_WAVE, Other} /\ sample = PixelState(frame.img)

\* a failed capture of an image whose pixels say BOSS_WAVE
C10_Witness ==
    sample = SCREENSHOT_FAIL /\ PixelState(frame.img) = BOSS_WAVE

\* C11: once alive is cleared, monitor eventually returns, and it starts no
\* other tick before it does
C11_ExitReturns ==
    /\ ~alive ~> pc = "done"
    /\ [][~alive => ~IsTick]_vars

\* monitor has returned after the Exit command
C11_Witness ==
    pc = "done" /\ ~alive

\* C12 as claimed: after the iteration of message_aware_sleep that processed
\* Exit, no further iteration of the same sleep runs
C12_NoFurtherSubSleep ==
    after_exit = 0

\* C12 as amended: the iterations of message_aware_sleep that remain after the
\* one that processed Exit all run, and they take less than one
\* CHECK_STATE_INTERVAL: the loop stops at the tick boundary
C12_StopsWithinTick ==
    after_exit * CHECK_MESSAGE_INTERVAL < CHECK_STATE_INTERVAL

\* Exit processed by the first iteration: the four that remain run before the return
C12_Witness ==
    /\ pc = "done"
    /\ (after_exit + 1) * CHECK_MESSAGE_INTERVAL = CHECK_STATE_INTERVAL

\* C16: a tick sends at most one notification, and sends one only if its state
\* differs from the previous tick's; a tick that repeats the state sends none
C16_EdgeTriggered ==
    [][IsTick
         => /\ Len(notifications') <= 1
            /\ notifications' # <<>> => prev_state' # prev_state
            /\ \A k \in DOMAIN notifications' : notifications'[k] = prev_state']_vars

\* a repeated SCREENSHOT_FAIL tick, which sent nothing
C16_Witness ==
    prev_state = SCREENSHOT_FAIL /\ notifications = <<>>

\* C17: a tick sets the counter to 0 when it sampled BOSS_WAVE, adds
\* CHECK_STATE_INTERVAL when it sampled OTHER and leaves it alone otherwise; no
\* other step changes it; it is 0 whenever prev_state is BOSS_WAVE
C17_CounterFrame ==
    /\ [](prev_state = BOSS_WAVE => active_time_without_boss = 0)
    /\ [][/\ IsTick =>
               active_time_without_boss' =
                  (IF prev_state' = BOSS_WAVE THEN 0
                   ELSE IF prev_state' = Other
                        THEN active_time_without_boss + CHECK_STATE_INTERVAL
                   ELSE active_time_without_boss)
          /\ ~IsTick => active_time_without_boss' = active_time_without_boss]_vars

\* a MINIMIZED tick in the middle of a cooldown
C17_Witness ==
    /\ prev_state = MINIMIZED
    /\ active_time_without_boss > 0
    /\ active_time_without_boss < MIN_BOSS_INTERVAL

\* C18: once alive is cleared no step samples the window, sends a notification
\* or writes the tray's state
C18_QuietAfterExit ==
    [][~alive
         => /\ ~IsTick
            /\ prev_state' = prev_state
            /\ notifications' = notifications
            /\ tray_state' = tray_state]_vars

\* Exit processed in the middle of a sleep
C18_Witness ==
    ~alive /\ pc = "sleep" /\ sleep_i > 0

\* C19: after every tick the tray's state is the state the tick sampled
C19_TrayFollowsState ==
    prev_state # None => tray_state = prev_state

\* a tick that sampled NOT_FOUND: the tray's state, OTHER at first, was written
C19_Witness ==
    prev_state = NOT_FOUND /\ tray_state = NOT_FOUND /\ pc = "sleep"

\* C13: when show_notification fails on a tick the failure is swallowed: the
\* tick still records its state in prev_state, resets the counter on a boss
\* wave, and the loop goes on to its sleep
C13_FailureSwallowed ==
    notify_raised
       => /\ pc # "raised"
          /\ prev_state = cur_state
          /\ cur_state = BOSS_WAVE => active_time_without_boss = 0

\* C14: ticks are strictly sequential: game_state is called for a new tick
\* only when the notification dispatch, the cooldown update and the prev_state
\* update of the previous tick are all done, the five message pumps of the
\* sleep in between included
C14_TicksSequential ==
    [][(pc # "sampled" /\ pc' = "sampled") => done_steps = TickSteps]_vars

\* a second tick is sampled, after the sleep of the first pumped the messages
C14_Witness ==
    /\ pc = "sampled"
    /\ prev_state # None
    /\ done_steps = {}

\* C15: a status line of a tick whose state equals the previous tick's state
\* is printed only in verbose mode and only when more than interval has
\* passed since the last printed line of any kind; with verbose off no such
\* line is printed
C15_StatusLineThrottled ==
    [][(IsTick /\ printed' = "status")
          => (verbose /\ since_line > interval /\ prev_state' = prev_state)]_vars

\* a status line is printed in verbose mode under the default interval
C15_Witness ==
    /\ printed = "status"
    /\ verbose
    /\ interval = DefaultInterval
    /\ pc = "sleep"

====
